---- MODULE Spec2Model ----
(***************************************************************************)
(* Voice control of a chess game: the command parser (parseVoiceCommand,   *)
(* normalizeSquare) and the listening session kept by the VoiceController  *)
(* component against the platform's speech recogniser, together with the   *)
(* game callbacks of Game.tsx that the controller drives.                  *)
(*                                                                         *)
(* A JavaScript string is a sequence of one-character strings.             *)
(***************************************************************************)
EXTENDS Integers, Sequences, FiniteSets, TLC

(***************************************************************************)
(* Characters and strings                                                  *)
(***************************************************************************)
LowerLetters ==
  <<"a","b","c","d","e","f","g","h","i","j","k","l","m",
    "n","o","p","q","r","s","t","u","v","w","x","y","z">>

UpperLetters ==
  <<"A","B","C","D","E","F","G","H","I","J","K","L","M",
    "N","O","P","Q","R","S","T","U","V","W","X","Y","Z">>

\* the class [a-h]
FileLower == {"a","b","c","d","e","f","g","h"}

\* the class [a-hA-H]
FileAny == FileLower \cup {"A","B","C","D","E","F","G","H"}

\* the class [1-8]
RankDigit == {"1","2","3","4","5","6","7","8"}

\* the class [qrbn]
PromoLetter == {"q","r","b","n"}

\* the class \s
IsSpace(c) == c = " "

\* String.prototype.toLowerCase, one character
toLowerChar(c) ==
  IF \E i \in 1..Len(UpperLetters) : UpperLetters[i] = c
  THEN LowerLetters[CHOOSE i \in 1..Len(UpperLetters) : UpperLetters[i] = c]
  ELSE c

\* String.prototype.toLowerCase
toLowerCase(s) == [i \in 1..Len(s) |-> toLowerChar(s[i])]

\* s.slice(i - 1) in 1-based positions: the suffix of s from position i
SliceFrom(s, i) == IF i > Len(s) THEN <<>> ELSE SubSeq(s, i, Len(s))

\* the literal w occurs in s at position i
StartsWithAt(s, i, w) ==
  /\ i >= 1
  /\ i + Len(w) - 1 <= Len(s)
  /\ \A j \in 1..Len(w) : s[i + j - 1] = w[j]

\* the first position >= i of s that holds no whitespace (Len(s)+1 if none)
RECURSIVE SkipSpaces(_, _)
SkipSpaces(s, i) ==
  IF i <= Len(s) /\ IsSpace(s[i]) THEN SkipSpaces(s, i + 1) ELSE i

RECURSIVE TrimLeft(_)
TrimLeft(s) ==
  IF s # <<>> /\ IsSpace(Head(s)) THEN TrimLeft(Tail(s)) ELSE s

RECURSIVE TrimRight(_)
TrimRight(s) ==
  IF s # <<>> /\ IsSpace(s[Len(s)]) THEN TrimRight(SubSeq(s, 1, Len(s) - 1)) ELSE s

\* String.prototype.trim
trim(s) == TrimRight(TrimLeft(s))

\* s.replace(/\s+/g, "")
RemoveSpaces(s) == SelectSeq(s, LAMBDA c : ~IsSpace(c))

W_to == <<"t","o">>
W_two == <<"t","w","o">>
W_too == <<"t","o","o">>

\* length of the match of /to|two|too/ at position i of s, 0 if none; the
\* alternatives are tried in the order written
ConnectorLenAt(s, i) ==
  IF StartsWithAt(s, i, W_to) THEN 2
  ELSE IF StartsWithAt(s, i, W_two) THEN 3
  ELSE IF StartsWithAt(s, i, W_too) THEN 3
  ELSE 0

\* s.replace(/to|two|too/g, ""), scanning from position i
RECURSIVE RemoveConnectorsFrom(_, _)
RemoveConnectorsFrom(s, i) ==
  IF i > Len(s) THEN <<>>
  ELSE IF ConnectorLenAt(s, i) > 0
       THEN RemoveConnectorsFrom(s, i + ConnectorLenAt(s, i))
       ELSE <<s[i]>> \o RemoveConnectorsFrom(s, i + 1)

RemoveConnectors(s) == RemoveConnectorsFrom(s, 1)

\* t.split(/\s+/) of the text from position i, cur being the token in progress
RECURSIVE SplitFrom(_, _, _)
SplitFrom(s, i, cur) ==
  IF i > Len(s) THEN <<cur>>
  ELSE IF IsSpace(s[i])
       THEN <<cur>> \o SplitFrom(s, SkipSpaces(s, i), <<>>)
       ELSE SplitFrom(s, i + 1, Append(cur, s[i]))

split(s) == SplitFrom(s, 1, <<>>)

\* Array.prototype.indexOf in 1-based positions, 0 when absent
indexOf(tokens, w) ==
  IF \E k \in 1..Len(tokens) : tokens[k] = w
  THEN CHOOSE k \in 1..Len(tokens) :
         /\ tokens[k] = w
         /\ \A j \in 1..(k - 1) : tokens[j] # w
  ELSE 0

\* the literal w occurs somewhere in s
Contains(s, w) == \E i \in 1..Len(s) : StartsWithAt(s, i, w)

\* /a\s*b/ matches somewhere in s
ContainsSpaced(s, a, b) ==
  \E i \in 1..Len(s) :
    /\ StartsWithAt(s, i, a)
    /\ StartsWithAt(s, SkipSpaces(s, i + Len(a)), b)

(***************************************************************************)
(* normalizeSquare                                                         *)
(***************************************************************************)
\* a value that is null or undefined in the source
null == <<>>

\* fileMap[fileLetter]: the own keys a..h map to themselves
fileMap(s) == IF Len(s) = 1 /\ s[1] \in FileLower THEN s ELSE null

W_one == <<"o","n","e">>
W_three == <<"t","h","r","e","e">>
W_four == <<"f","o","u","r">>
W_for == <<"f","o","r">>
W_five == <<"f","i","v","e">>
W_six == <<"s","i","x">>
W_seven == <<"s","e","v","e","n">>
W_eight == <<"e","i","g","h","t">>
W_constructor == <<"c","o","n","s","t","r","u","c","t","o","r">>

\* the text of `${Object}`, what rankMap["constructor"] formats to
ObjectFunctionText ==
  <<"f","u","n","c","t","i","o","n"," ","O","b","j","e","c","t","(",")",
    " ","{"," ","[","n","a","t","i","v","e"," ","c","o","d","e","]"," ","}">>

\* rankMap[rankWord] as the template literal formats it: the own keys give a
\* digit, and the key "constructor" is found on the prototype of the object
\* literal
rankMap(w) ==
  IF w = W_one THEN <<"1">>
  ELSE IF w = W_two THEN <<"2">>
  ELSE IF w = W_three THEN <<"3">>
  ELSE IF w = W_four THEN <<"4">>
  ELSE IF w = W_for THEN <<"4">>
  ELSE IF w = W_five THEN <<"5">>
  ELSE IF w = W_six THEN <<"6">>
  ELSE IF w = W_seven THEN <<"7">>
  ELSE IF w = W_eight THEN <<"8">>
  ELSE IF w = W_constructor THEN ObjectFunctionText
  ELSE null

\* /^[a-hA-H][1-8]$/
IsSquareText(s) == Len(s) = 2 /\ s[1] \in FileAny /\ s[2] \in RankDigit

normalizeSquare(input) ==
  LET cleaned == RemoveSpaces(trim(input))
      fileLetter == IF cleaned = <<>> THEN null ELSE <<cleaned[1]>>
      rankWord == SliceFrom(cleaned, 2)
  IN IF IsSquareText(cleaned) THEN toLowerCase(cleaned)
     ELSE IF fileMap(fileLetter) # null /\ rankMap(rankWord) # null
          THEN fileMap(fileLetter) \o rankMap(rankWord)
          ELSE null

(***************************************************************************)
(* parseVoiceCommand                                                       *)
(***************************************************************************)
Cmd(type, from, to, side) ==
  [type |-> type, from |-> from, to |-> to, side |-> side]

NoCommand == Cmd("null", null, null, "")

\* t.toLowerCase().replace(/to|two|too/g, "").replace(/\s+/g, "")
clean(t) == RemoveSpaces(RemoveConnectors(toLowerCase(t)))

\* /^([a-h][1-8])([a-h][1-8])([qrbn])?$/
uciMatch(c) ==
  /\ Len(c) \in {4, 5}
  /\ c[1] \in FileLower /\ c[2] \in RankDigit
  /\ c[3] \in FileLower /\ c[4] \in RankDigit
  /\ Len(c) = 5 => c[5] \in PromoLetter

W_new == <<"n","e","w">>
W_game == <<"g","a","m","e">>
W_reset == <<"r","e","s","e","t">>
W_undo == <<"u","n","d","o">>
W_take == <<"t","a","k","e">>
W_back == <<"b","a","c","k">>
W_castle == <<"c","a","s","t","l","e">>
W_castling == <<"c","a","s","t","l","i","n","g">>
W_queen == <<"q","u","e","e","n">>
W_long == <<"l","o","n","g">>
W_move == <<"m","o","v","e">>

\* /new\s*game|reset/i
isNewGame(t) ==
  ContainsSpaced(toLowerCase(t), W_new, W_game) \/ Contains(toLowerCase(t), W_reset)

\* /undo|take\s*back/i
isUndo(t) ==
  Contains(toLowerCase(t), W_undo) \/ ContainsSpaced(toLowerCase(t), W_take, W_back)

\* /castle|castling/i
isCastle(t) ==
  Contains(toLowerCase(t), W_castle) \/ Contains(toLowerCase(t), W_castling)

\* /queen|long/i
isQueenside(t) ==
  Contains(toLowerCase(t), W_queen) \/ Contains(toLowerCase(t), W_long)

\* /[a-hA-H]\s*[1-8]/ at position i of s: the position of the digit, 0 if none
SquareEndAt(s, i) ==
  IF i >= 1 /\ i <= Len(s) /\ s[i] \in FileAny
  THEN LET j == SkipSpaces(s, i + 1)
       IN IF j <= Len(s) /\ s[j] \in RankDigit THEN j ELSE 0
  ELSE 0

\* \s*(to|two|too)?\s* followed by a square, after position j of s: where the
\* second square starts, 0 if none; the optional group is tried first, its
\* alternatives in the order written, all under the i flag
SecondSquareStart(s, j) ==
  LET p == SkipSpaces(s, j + 1)
      low == toLowerCase(s)
      after(w) == SkipSpaces(s, p + Len(w))
  IN IF StartsWithAt(low, p, W_to) /\ SquareEndAt(s, after(W_to)) > 0
         THEN after(W_to)
     ELSE IF StartsWithAt(low, p, W_two) /\ SquareEndAt(s, after(W_two)) > 0
         THEN after(W_two)
     ELSE IF StartsWithAt(low, p, W_too) /\ SquareEndAt(s, after(W_too)) > 0
         THEN after(W_too)
     ELSE IF SquareEndAt(s, p) > 0 THEN p
     ELSE 0

\* the pattern of simpleMove matches s from position i
SimpleMoveAt(s, i) ==
  /\ SquareEndAt(s, i) > 0
  /\ SecondSquareStart(s, SquareEndAt(s, i)) > 0

\* t.match(/([a-hA-H]\s*[1-8])\s*(to|two|too)?\s*([a-hA-H]\s*[1-8])/i): the
\* groups 1 and 3 of the leftmost match, null if there is none
simpleMove(t) ==
  IF \E i \in 1..Len(t) : SimpleMoveAt(t, i)
  THEN LET i == CHOOSE k \in 1..Len(t) :
                  /\ SimpleMoveAt(t, k)
                  /\ \A m \in 1..(k - 1) : ~SimpleMoveAt(t, m)
           j == SquareEndAt(t, i)
           q == SecondSquareStart(t, j)
       IN <<SubSeq(t, i, j), SubSeq(t, q, SquareEndAt(t, q))>>
  ELSE null

\* the "move <from> <to>" form over the tokens of t
tokenMove(t) ==
  LET tokens == split(t)
      idxMove == indexOf(tokens, W_move)
  IN IF idxMove # 0 /\ Len(tokens) >= idxMove + 2
     THEN LET from == normalizeSquare(tokens[idxMove + 1])
              to == normalizeSquare(tokens[idxMove + 2])
          IN IF from # null /\ to # null THEN Cmd("move", from, to, "")
             ELSE NoCommand
     ELSE NoCommand

\* parseVoiceCommand that tests the undo keywords ahead of the new-game ones
parseVoiceCommandUndoFirst(text) ==
  LET t == trim(text)
      c == clean(t)
      m == simpleMove(t)
  IN IF uciMatch(c) THEN Cmd("move", SubSeq(c, 1, 2), SubSeq(c, 3, 4), "")
     ELSE IF isUndo(t) THEN Cmd("undo", null, null, "")
     ELSE IF isNewGame(t) THEN Cmd("newgame", null, null, "")
     ELSE IF isCastle(t)
          THEN IF isQueenside(t) THEN Cmd("castle", null, null, "queenside")
               ELSE Cmd("castle", null, null, "kingside")
     ELSE IF m # null /\ normalizeSquare(m[1]) # null /\ normalizeSquare(m[2]) # null
          THEN Cmd("move", normalizeSquare(m[1]), normalizeSquare(m[2]), "")
     ELSE tokenMove(t)

parseVoiceCommand(text) ==
  LET t == trim(text)
      c == clean(t)
      m == simpleMove(t)
  IN IF uciMatch(c) THEN Cmd("move", SubSeq(c, 1, 2), SubSeq(c, 3, 4), "")
     ELSE IF isNewGame(t) THEN Cmd("newgame", null, null, "")
     ELSE IF isUndo(t) THEN Cmd("undo", null, null, "")
     ELSE IF isCastle(t)
          THEN IF isQueenside(t) THEN Cmd("castle", null, null, "queenside")
               ELSE Cmd("castle", null, null, "kingside")
     ELSE IF m # null /\ normalizeSquare(m[1]) # null /\ normalizeSquare(m[2]) # null
          THEN Cmd("move", normalizeSquare(m[1]), normalizeSquare(m[2]), "")
     ELSE tokenMove(t)

(***************************************************************************)
(* Transcripts the recogniser may deliver                                  *)
(***************************************************************************)
T_e2_to_e4 == <<"e","2"," ","t","o"," ","e","4">>
T_e2e4 == <<"e","2","e","4">>
T_e_2_two_e_4 == <<"e"," ","2"," ","t","w","o"," ","e"," ","4">>
T_e7_to_e5 == <<"e","7"," ","t","o"," ","e","5">>
T_new_game == <<"n","e","w"," ","g","a","m","e">>
T_reset == <<"r","e","s","e","t">>
T_undo == <<"u","n","d","o">>
T_take_back == <<"t","a","k","e"," ","b","a","c","k">>
T_castle == <<"c","a","s","t","l","e">>
T_castle_queenside ==
  <<"c","a","s","t","l","e"," ","q","u","e","e","n","s","i","d","e">>
T_banana == <<"b","a","n","a","n","a">>
T_move_etwo_efour ==
  <<"m","o","v","e"," ","e","t","w","o"," ","e","f","o","u","r">>

Transcripts ==
  { T_e2_to_e4, T_e2e4, T_e_2_two_e_4, T_e7_to_e5, T_new_game, T_reset,
    T_undo, T_take_back, T_castle, T_castle_queenside, T_banana,
    T_move_etwo_efour }

\* squares the board UI lets the user click
Sq_e2 == <<"e","2">>
Sq_e4 == <<"e","4">>
Sq_e7 == <<"e","7">>
Sq_e5 == <<"e","5">>
ClickMoves == { <<Sq_e2, Sq_e4>>, <<Sq_e7, Sq_e5>> }

\* event.error codes of a recognition round
ErrorCodes == {"no-speech", "network", "not-allowed"}

\* the longest game history explored
MaxMoves == 2

(***************************************************************************)
(* Side effects of a handler                                               *)
(***************************************************************************)
Eff(k, text, from, to) == [k |-> k, text |-> text, from |-> from, to |-> to]

\* speak(text)
speak(text) == Eff("speak", text, null, null)

\* speak(`Move ${from} to ${to} played.`)
speakMove(from, to) == Eff("speak", "Move played.", from, to)

\* recognition.start(), recognition.stop(), recognition.abort()
ReqStart == Eff("start", "", null, null)
ReqStop == Eff("stop", "", null, null)
ReqAbort == Eff("abort", "", null, null)

\* onMove(from, to), onNewGame(), onUndo()
CallMove(from, to) == Eff("onMove", "", from, to)
CallNewGame == Eff("onNewGame", "", null, null)
CallUndo == Eff("onUndo", "", null, null)

VoiceStatus == {"idle", "ready", "listening", "processing", "error", "unsupported"}

(***************************************************************************)
(* State                                                                   *)
(***************************************************************************)
VARIABLES
  phase,             \* the component: "init", "mounted" or "unmounted"
  supported,         \* window.SpeechRecognition || window.webkitSpeechRecognition
  status,            \* voiceStatus, written through setStatus
  isListeningActive, \* isListeningActive.current
  recognition,       \* the round of the recogniser held by recognitionRef
  lastCommand,       \* lastCommand, written through setLastCommand
  game,              \* the moves played on gameRef.current
  welcomes,          \* how many times the welcome notice was spoken
  last,              \* the handler that ran last and what it did
  scenario,          \* how far the run follows the scripted session, -1 if it left it
  rounds,            \* the recognition rounds in flight: started and not yet ended
  call               \* the parser called on its own: its input and its result

vars ==
  <<phase, supported, status, isListeningActive, recognition, lastCommand,
    game, welcomes, last, scenario, rounds, call>>

\* the record kept of a handler run
Ran(ev, transcript, code, out, caught, threw) ==
  [ev |-> ev, transcript |-> transcript, code |-> code, out |-> out,
   caught |-> caught, threw |-> threw]

\* the effects in a sequence of effects that have kind k
OfKind(out, k) == SelectSeq(out, LAMBDA e : e.k = k)

GameCalls(out) ==
  SelectSeq(out, LAMBDA e : e.k \in {"onMove", "onNewGame", "onUndo"})

(***************************************************************************)
(* The recogniser of the platform                                          *)
(***************************************************************************)
\* a recogniser that accepts a start while a round is under way
startNeverThrows(rec) == FALSE

\* recognition.start(): begins a round, or throws when one is under way
startThrows(rec) == rec # "idle"

afterStart(rec) == IF startThrows(rec) THEN rec ELSE "starting"

\* recognition.abort(): a round under way is cut short
afterAbort(rec) == IF rec \in {"starting", "running"} THEN "aborting" ELSE rec

\* The scripted session: construct (supported), Start, onStart,
\* onResult("e2 to e4"), onEnd.  The position reached after handler ev ran
\* at position n.
scenarioStep(n, ev, sup, transcript) ==
  IF n = 0 /\ ev = "mount" /\ sup THEN 1
  ELSE IF n = 1 /\ ev = "toggle" THEN 2
  ELSE IF n = 2 /\ ev = "onstart" THEN 3
  ELSE IF n = 3 /\ ev = "onresult" /\ transcript = T_e2_to_e4 THEN 4
  ELSE IF n = 4 /\ ev = "onend" THEN 5
  ELSE -1

\* the record kept of a call of parseVoiceCommand or normalizeSquare
Called(fn, form, text, meant, command, square) ==
  [fn |-> fn, form |-> form, text |-> text, meant |-> meant,
   command |-> command, square |-> square]

Init ==
  /\ phase = "init"
  /\ supported \in BOOLEAN
  /\ status = "idle"
  /\ isListeningActive = FALSE
  /\ recognition = "none"
  /\ lastCommand = <<>>
  /\ game = <<>>
  /\ welcomes = 0
  /\ last = Ran("none", <<>>, "", <<>>, FALSE, FALSE)
  /\ scenario = 0
  /\ rounds = 0
  /\ call = Called("none", "", <<>>, NoCommand, NoCommand, null)

\* the round of the recogniser after the requests in out reached it
RECURSIVE afterRequests(_, _)
afterRequests(rec, out) ==
  IF out = <<>> THEN rec
  ELSE afterRequests(
         IF Head(out).k = "start" THEN afterStart(rec)
         ELSE IF Head(out).k = "abort" THEN afterAbort(rec)
         ELSE rec,
         Tail(out))

\* a start request in out was refused by the recogniser
RECURSIVE someStartThrows(_, _)
someStartThrows(rec, out) ==
  IF out = <<>> THEN FALSE
  ELSE \/ Head(out).k = "start" /\ startThrows(rec)
       \/ someStartThrows(afterRequests(rec, <<Head(out)>>), Tail(out))

\* how many start requests of out began a round
RECURSIVE startsAccepted(_, _)
startsAccepted(rec, out) ==
  IF out = <<>> THEN 0
  ELSE (IF Head(out).k = "start" /\ ~startThrows(rec) THEN 1 ELSE 0)
       + startsAccepted(afterRequests(rec, <<Head(out)>>), Tail(out))

(***************************************************************************)
(* Game.tsx: the callbacks handed to the controller                        *)
(***************************************************************************)
\* handleVoiceMove and handleSquareClick: gameRef.current.move(...), which the
\* chess engine accepts or rejects
moveOnGame(g, from, to, accepted) == IF accepted THEN Append(g, <<from, to>>) ELSE g

\* handleVoiceMove throws when the engine rejects the move
handleVoiceMoveThrows(accepted) == ~accepted

\* handleUndo: gameRef.current.undo()
handleUndo(g) == IF g = <<>> THEN g ELSE SubSeq(g, 1, Len(g) - 1)

\* handleNewGame: a fresh game, and setLastCommand("")
handleNewGameGame(g) == <<>>

handleNewGameLastCommand(cmd) == <<>>

(***************************************************************************)
(* VoiceController: the effect on mount                                    *)
(***************************************************************************)
WelcomeText == "Welcome to vocal chess. Start by making your move."

\* useEffectMount with the welcome spoken ahead of the capability check
useEffectMountWelcomesFirst(sup) ==
  IF ~sup THEN [status |-> "unsupported", out |-> <<speak(WelcomeText)>>]
  ELSE [status |-> "ready", out |-> <<speak(WelcomeText)>>]

\* what the effect does: the status it sets and the notices it speaks
useEffectMount(sup) ==
  IF ~sup THEN [status |-> "unsupported", out |-> <<>>]
  ELSE [status |-> "ready", out |-> <<speak(WelcomeText)>>]

Mount ==
  /\ phase = "init"
  /\ phase' = "mounted"
  /\ status' = useEffectMount(supported).status
  /\ recognition' = IF supported THEN "idle" ELSE "none"
  /\ welcomes' = welcomes + Len(OfKind(useEffectMount(supported).out, "speak"))
  /\ last' = Ran("mount", <<>>, "", useEffectMount(supported).out, FALSE, FALSE)
  /\ scenario' = scenarioStep(scenario, "mount", supported, <<>>)
  /\ UNCHANGED <<supported, isListeningActive, lastCommand, game, rounds, call>>

\* the cleanup of the effect: registered only when the recogniser was created
cleanup(rec) == IF rec # "none" THEN <<ReqAbort>> ELSE <<>>

Teardown ==
  /\ phase = "mounted"
  /\ phase' = "unmounted"
  /\ recognition' = afterRequests(recognition, cleanup(recognition))
  /\ last' = Ran("teardown", <<>>, "", cleanup(recognition), FALSE, FALSE)
  /\ scenario' = scenarioStep(scenario, "teardown", supported, <<>>)
  /\ UNCHANGED <<supported, status, isListeningActive, lastCommand, game, welcomes,
                 rounds, call>>

(***************************************************************************)
(* VoiceController: handleToggle                                           *)
(***************************************************************************)
\* handleToggle without the early return of the unsupported status
handleToggleNoGuard(st, active) ==
  IF st = "listening" THEN [active |-> FALSE, out |-> <<ReqStop>>]
  ELSE [active |-> TRUE, out |-> <<ReqStart>>]

\* handleToggle that stops the recogniser but leaves isListeningActive set
handleToggleKeepsActive(st, active) ==
  IF st = "unsupported" THEN [active |-> active, out |-> <<>>]
  ELSE IF st = "listening" THEN [active |-> active, out |-> <<ReqStop>>]
  ELSE [active |-> TRUE, out |-> <<ReqStart>>]

\* handleToggle that takes the stop branch whenever a recogniser is at hand
handleToggleStopsWhenReady(st, active) ==
  IF st = "unsupported" THEN [active |-> active, out |-> <<>>]
  ELSE IF st \in {"listening", "ready"} THEN [active |-> FALSE, out |-> <<ReqStop>>]
  ELSE [active |-> TRUE, out |-> <<ReqStart>>]

handleToggle(st, active) ==
  IF st = "unsupported" THEN [active |-> active, out |-> <<>>]
  ELSE IF st = "listening" THEN [active |-> FALSE, out |-> <<ReqStop>>]
  ELSE [active |-> TRUE, out |-> <<ReqStart>>]

\* a catch block that surfaces the refused start the way onerror does
handleToggleCatchReports(st) ==
  [status |-> "error", out |-> <<speak("An error occurred.")>>]

\* the catch block of handleToggle: console.error(e) and nothing else
handleToggleCatch(st) == [status |-> st, out |-> <<>>]

Toggle ==
  /\ phase = "mounted"
  /\ LET r == handleToggle(status, isListeningActive)
         thrown == someStartThrows(recognition, r.out)
         c == handleToggleCatch(status)
     IN /\ isListeningActive' = r.active
        /\ recognition' = afterRequests(recognition, r.out)
        /\ rounds' = rounds + startsAccepted(recognition, r.out)
        /\ status' = IF thrown THEN c.status ELSE status
        /\ last' = Ran("toggle", <<>>, "",
                       IF thrown THEN r.out \o c.out ELSE r.out, thrown, FALSE)
        /\ scenario' = scenarioStep(scenario, "toggle", supported, <<>>)
  /\ UNCHANGED <<phase, supported, lastCommand, game, welcomes, call>>

(***************************************************************************)
(* VoiceController: the handlers of the recogniser's events                *)
(***************************************************************************)
\* onstart that leaves the status at ready
onstartReady == "ready"

\* recognition.onstart
onstart == "listening"

OnStart ==
  /\ recognition = "starting"
  /\ recognition' = "running"
  /\ status' = onstart
  /\ last' = Ran("onstart", <<>>, "", <<>>, FALSE, FALSE)
  /\ scenario' = scenarioStep(scenario, "onstart", supported, <<>>)
  /\ UNCHANGED <<phase, supported, isListeningActive, lastCommand, game, welcomes,
                 rounds, call>>

\* onend that sets the status to ready before it looks at isListeningActive
onendAlwaysReady(st, active) ==
  IF active THEN [status |-> "ready", out |-> <<ReqStart>>]
  ELSE [status |-> "ready", out |-> <<>>]

\* recognition.onend
onend(st, active) ==
  IF active THEN [status |-> st, out |-> <<ReqStart>>]
  ELSE [status |-> "ready", out |-> <<>>]

OnEnd ==
  /\ recognition \in {"running", "finishing", "aborting"}
  /\ LET r == onend(status, isListeningActive)
     IN /\ status' = r.status
        /\ recognition' = afterRequests("idle", r.out)
        /\ rounds' = rounds - 1 + startsAccepted("idle", r.out)
        /\ last' = Ran("onend", <<>>, "", r.out, someStartThrows("idle", r.out), FALSE)
        /\ scenario' = scenarioStep(scenario, "onend", supported, <<>>)
  /\ UNCHANGED <<phase, supported, isListeningActive, lastCommand, game, welcomes, call>>

\* onerror without the early return of the no-speech branch
onerrorNoReturn(code) ==
  IF code = "no-speech" THEN [status |-> "error", out |-> <<speak("An error occurred.")>>]
  ELSE [status |-> "error", out |-> <<speak("An error occurred.")>>]

\* recognition.onerror
onerror(code) ==
  IF code = "no-speech" THEN [status |-> "ready", out |-> <<>>]
  ELSE [status |-> "error", out |-> <<speak("An error occurred.")>>]

\* OnError that also clears isListeningActive
OnErrorClearsIntent(code) ==
  /\ \/ recognition \in {"starting", "running"} /\ code \in ErrorCodes
     \/ recognition = "aborting" /\ code = "aborted"
  /\ recognition' = "finishing"
  /\ status' = onerror(code).status
  /\ isListeningActive' = FALSE
  /\ last' = Ran("onerror", <<>>, code, onerror(code).out, FALSE, FALSE)
  /\ scenario' = scenarioStep(scenario, "onerror", supported, <<>>)
  /\ UNCHANGED <<phase, supported, lastCommand, game, welcomes, rounds, call>>

OnError(code) ==
  /\ \/ recognition \in {"starting", "running"} /\ code \in ErrorCodes
     \/ recognition = "aborting" /\ code = "aborted"
  /\ recognition' = "finishing"
  /\ status' = onerror(code).status
  /\ last' = Ran("onerror", <<>>, code, onerror(code).out, FALSE, FALSE)
  /\ scenario' = scenarioStep(scenario, "onerror", supported, <<>>)
  /\ UNCHANGED <<phase, supported, isListeningActive, lastCommand, game, welcomes,
                 rounds, call>>

\* dispatch whose last branch is a bare else, so that a castle command undoes
dispatchElseUndo(command, accepted) ==
  IF command.type = "null" THEN <<speak("Invalid format.")>>
  ELSE IF command.type = "move"
       THEN IF handleVoiceMoveThrows(accepted)
            THEN <<CallMove(command.from, command.to)>>
            ELSE <<CallMove(command.from, command.to),
                   speakMove(command.from, command.to)>>
  ELSE IF command.type = "newgame" THEN <<CallNewGame, speak("New game started.")>>
  ELSE <<CallUndo, speak("Move undone.")>>

\* dispatch that returns on an unparsed transcript without the notice
dispatchNullSilent(command, accepted) ==
  IF command.type = "null" THEN <<>>
  ELSE IF command.type = "move"
       THEN IF handleVoiceMoveThrows(accepted)
            THEN <<CallMove(command.from, command.to)>>
            ELSE <<CallMove(command.from, command.to),
                   speakMove(command.from, command.to)>>
  ELSE IF command.type = "newgame" THEN <<CallNewGame, speak("New game started.")>>
  ELSE IF command.type = "undo" THEN <<CallUndo, speak("Move undone.")>>
  ELSE <<>>

\* dispatch that catches the throw of the move callback and reports it
dispatchCatchesThrow(command, accepted) ==
  IF command.type = "null" THEN <<speak("Invalid format.")>>
  ELSE IF command.type = "move"
       THEN IF handleVoiceMoveThrows(accepted)
            THEN <<CallMove(command.from, command.to), speak("Invalid format.")>>
            ELSE <<CallMove(command.from, command.to),
                   speakMove(command.from, command.to)>>
  ELSE IF command.type = "newgame" THEN <<CallNewGame, speak("New game started.")>>
  ELSE IF command.type = "undo" THEN <<CallUndo, speak("Move undone.")>>
  ELSE <<>>

\* recognition.onresult, after setLastCommand: the callback invoked and the
\* notice spoken for a command; the notice of a move is not reached when the
\* callback throws
dispatch(command, accepted) ==
  IF command.type = "null" THEN <<speak("Invalid format.")>>
  ELSE IF command.type = "move"
       THEN IF handleVoiceMoveThrows(accepted)
            THEN <<CallMove(command.from, command.to)>>
            ELSE <<CallMove(command.from, command.to),
                   speakMove(command.from, command.to)>>
  ELSE IF command.type = "newgame" THEN <<CallNewGame, speak("New game started.")>>
  ELSE IF command.type = "undo" THEN <<CallUndo, speak("Move undone.")>>
  ELSE <<>>

\* the game after the callbacks in out ran
RECURSIVE gameAfter(_, _, _)
gameAfter(g, out, accepted) ==
  IF out = <<>> THEN g
  ELSE gameAfter(
         IF Head(out).k = "onMove"
           THEN moveOnGame(g, Head(out).from, Head(out).to, accepted)
         ELSE IF Head(out).k = "onNewGame" THEN handleNewGameGame(g)
         ELSE IF Head(out).k = "onUndo" THEN handleUndo(g)
         ELSE g,
         Tail(out), accepted)

\* lastCommand when the new-game callback leaves it alone
onresultLastCommandKept(transcript, out) == transcript

\* lastCommand after setLastCommand(transcript) and the callbacks in out
onresultLastCommand(transcript, out) ==
  IF OfKind(out, "onNewGame") # <<>> THEN handleNewGameLastCommand(transcript)
  ELSE transcript

OnResult(transcript, accepted) ==
  /\ recognition = "running"
  /\ accepted => /\ parseVoiceCommand(transcript).type = "move"
                 /\ Len(game) < MaxMoves
  /\ recognition' = "finishing"
  /\ LET out == dispatch(parseVoiceCommand(transcript), accepted)
     IN /\ lastCommand' = onresultLastCommand(transcript, out)
        /\ game' = gameAfter(game, out, accepted)
        /\ last' = Ran("onresult", transcript, "", out, FALSE,
                       /\ OfKind(out, "onMove") # <<>>
                       /\ handleVoiceMoveThrows(accepted))
        /\ scenario' = scenarioStep(scenario, "onresult", supported, transcript)
  /\ UNCHANGED <<phase, supported, status, isListeningActive, welcomes, rounds, call>>

(***************************************************************************)
(* Game.tsx: the buttons and the board                                     *)
(***************************************************************************)
\* the New Game button
ClickNewGame ==
  /\ phase = "mounted"
  /\ game' = handleNewGameGame(game)
  /\ lastCommand' = handleNewGameLastCommand(lastCommand)
  /\ last' = Ran("clickNewGame", <<>>, "", <<>>, FALSE, FALSE)
  /\ scenario' = scenarioStep(scenario, "clickNewGame", supported, <<>>)
  /\ UNCHANGED <<phase, supported, status, isListeningActive, recognition, welcomes,
                 rounds, call>>

\* the Undo button, disabled while there are no moves
ClickUndo ==
  /\ phase = "mounted"
  /\ game # <<>>
  /\ game' = handleUndo(game)
  /\ last' = Ran("clickUndo", <<>>, "", <<>>, FALSE, FALSE)
  /\ scenario' = scenarioStep(scenario, "clickUndo", supported, <<>>)
  /\ UNCHANGED <<phase, supported, status, isListeningActive, recognition,
                 lastCommand, welcomes, rounds, call>>

\* handleSquareClick: a move made on the board; a rejected one is swallowed
SquareClick(m, accepted) ==
  /\ phase = "mounted"
  /\ accepted => Len(game) < MaxMoves
  /\ game' = moveOnGame(game, m[1], m[2], accepted)
  /\ last' = Ran("squareClick", <<>>, "", <<>>, FALSE, FALSE)
  /\ scenario' = scenarioStep(scenario, "squareClick", supported, <<>>)
  /\ UNCHANGED <<phase, supported, status, isListeningActive, recognition,
                 lastCommand, welcomes, rounds, call>>

Next ==
  \/ Mount
  \/ Teardown
  \/ Toggle
  \/ OnStart
  \/ OnEnd
  \/ \E code \in ErrorCodes \cup {"aborted"} : OnError(code)
  \/ \E transcript \in Transcripts, accepted \in BOOLEAN : OnResult(transcript, accepted)
  \/ ClickNewGame
  \/ ClickUndo
  \/ \E m \in ClickMoves, accepted \in BOOLEAN : SquareClick(m, accepted)

Spec == Init /\ [][Next]_vars

TypeOK ==
  /\ phase \in {"init", "mounted", "unmounted"}
  /\ supported \in BOOLEAN
  /\ status \in VoiceStatus
  /\ isListeningActive \in BOOLEAN
  /\ recognition \in {"none", "idle", "starting", "running", "finishing", "aborting"}
  /\ lastCommand \in Transcripts \cup {<<>>}
  /\ Len(game) <= MaxMoves
  /\ welcomes \in 0..1
  /\ scenario \in -1..5
  /\ rounds \in 0..1

(***************************************************************************)
(* Properties                                                              *)
(***************************************************************************)
Starts(out) == OfKind(out, "start")

Notices(out) == OfKind(out, "speak")

\* C1: on every round-ended event, if isListeningActive is set the handler
\* requests a start of the recogniser and leaves the status as it was, and
\* otherwise it sets the status to ready and requests no start; so the session
\* construct (supported), Start, onStart, onResult("e2 to e4"), onEnd ends
\* with the status listening, the intent set and a new round requested.
C1_OnEndRestartsOrReady ==
  /\ [][last'.ev = "onend" =>
          IF isListeningActive
          THEN /\ Starts(last'.out) = <<ReqStart>>
               /\ status' = status
               /\ recognition' = "starting"
          ELSE /\ status' = "ready"
               /\ Starts(last'.out) = <<>>
               /\ recognition' = "idle"]_vars
  /\ [](scenario = 5 =>
          /\ status = "listening"
          /\ isListeningActive
          /\ recognition = "starting")

C1_Witness ==
  /\ scenario = 5
  /\ last.ev = "onend"
  /\ Starts(last.out) = <<ReqStart>>
  /\ status = "listening"

\* C2: once the status is error, it stays error and no start of the
\* recogniser is requested by any handler until the user toggles again.
C2_ErrorStaysUntilToggle ==
  [][(status = "error" /\ last'.ev # "toggle") =>
       /\ status' = "error"
       /\ Starts(last'.out) = <<>>]_vars

\* C3: teardown aborts the recogniser, and after teardown no event changes
\* the status, requests a start, invokes a game callback or speaks a notice.
C3_NothingAfterTeardown ==
  [][/\ (last'.ev = "teardown" /\ recognition # "none") =>
          OfKind(last'.out, "abort") = <<ReqAbort>>
     /\ phase = "unmounted" =>
          /\ status' = status
          /\ Starts(last'.out) = <<>>
          /\ GameCalls(last'.out) = <<>>
          /\ Notices(last'.out) = <<>>]_vars

\* C4: after a recognition error event the status is ready and nothing was
\* spoken when the code is "no-speech", and the status is error and exactly
\* the generic error notice was spoken for any other code; no game callback
\* is invoked in either case.
C4_ErrorEvent ==
  last.ev = "onerror" =>
    /\ IF last.code = "no-speech"
       THEN status = "ready" /\ Notices(last.out) = <<>>
       ELSE status = "error" /\ Notices(last.out) = <<speak("An error occurred.")>>
    /\ GameCalls(last.out) = <<>>

C4_Witness ==
  /\ last.ev = "onerror"
  /\ last.code = "network"
  /\ status = "error"
  /\ Len(Notices(last.out)) = 1

\* C5: a toggle while the status is listening clears isListeningActive and
\* requests a stop; isListeningActive then stays cleared until the next
\* toggle, the round-ended event that finds it cleared sets the status to
\* ready and requests no start, and from there the status stays ready and the
\* recogniser idle until the next toggle.
C5_StopLeadsToReady ==
  [][/\ (last'.ev = "toggle" /\ status = "listening") =>
          /\ isListeningActive' = FALSE
          /\ last'.out = <<ReqStop>>
     /\ (last'.ev # "toggle" /\ ~isListeningActive) => ~isListeningActive'
     /\ (last'.ev = "onend" /\ ~isListeningActive) =>
          /\ status' = "ready"
          /\ Starts(last'.out) = <<>>
          /\ recognition' = "idle"
     /\ (/\ last'.ev # "toggle"
         /\ status = "ready" /\ ~isListeningActive /\ recognition = "idle") =>
          /\ status' = "ready"
          /\ recognition' = "idle"
          /\ Starts(last'.out) = <<>>]_vars

C5_Witness ==
  /\ phase = "mounted"
  /\ last.ev = "onend"
  /\ ~isListeningActive
  /\ status = "ready"
  /\ recognition = "idle"

\* C6: without the recognition capability the status is unsupported from
\* construction on, no welcome is spoken, and no toggle changes the status or
\* isListeningActive or requests a start; with it, construction sets the
\* status to ready and the welcome is spoken exactly once.
C6_Construction ==
  /\ (phase # "init" /\ ~supported) =>
       /\ status = "unsupported"
       /\ welcomes = 0
       /\ ~isListeningActive
       /\ recognition = "none"
       /\ Starts(last.out) = <<>>
  /\ (phase # "init" /\ supported) => welcomes = 1
  /\ (last.ev = "mount" /\ supported) =>
       /\ status = "ready"
       /\ last.out = <<speak(WelcomeText)>>

C6_Witness ==
  /\ ~supported
  /\ last.ev = "toggle"
  /\ status = "unsupported"
  /\ ~isListeningActive

\* the game callbacks the command of a transcript calls for
ExpectedCalls(transcript) ==
  LET c == parseVoiceCommand(transcript)
  IN IF c.type = "move" THEN <<CallMove(c.from, c.to)>>
     ELSE IF c.type = "newgame" THEN <<CallNewGame>>
     ELSE IF c.type = "undo" THEN <<CallUndo>>
     ELSE <<>>

\* C7: an utterance invokes exactly the callback of its command, once: the
\* move callback with the parsed squares for a move, the new-game callback
\* for a new game, the undo callback for an undo, none for a castle command
\* (nor for an unparsed transcript); no other handler invokes a game
\* callback, and in the scripted session the only invocation is the move
\* callback with e2 and e4.
C7_OneMatchingCallback ==
  /\ last.ev = "onresult" => GameCalls(last.out) = ExpectedCalls(last.transcript)
  /\ last.ev # "onresult" => GameCalls(last.out) = <<>>
  /\ (last.ev = "onresult" /\ last.transcript = T_castle_queenside) =>
       GameCalls(last.out) = <<>>
  /\ (last.ev = "onresult" /\ last.transcript = T_take_back) =>
       GameCalls(last.out) = <<CallUndo>>
  /\ (last.ev = "onresult" /\ last.transcript = T_reset) =>
       GameCalls(last.out) = <<CallNewGame>>
  /\ scenario = 4 => GameCalls(last.out) = <<CallMove(Sq_e2, Sq_e4)>>

C7_Witness ==
  /\ last.ev = "onresult"
  /\ last.transcript = T_castle
  /\ parseVoiceCommand(last.transcript).type = "castle"
  /\ GameCalls(last.out) = <<>>

\* C8: every utterance whose callback does not throw produces exactly one
\* spoken notice: a confirmation when the transcript parses, whatever the
\* kind of the command, and the "invalid format" notice when it does not.
C8_OneNoticePerUtterance ==
  (last.ev = "onresult" /\ ~last.threw) =>
    /\ Len(Notices(last.out)) = 1
    /\ parseVoiceCommand(last.transcript).type = "null"
         <=> Notices(last.out) = <<speak("Invalid format.")>>

\* C9: an utterance whose transcript does not parse speaks the "invalid
\* format" notice and nothing else happens: no game callback, the game, the
\* status and isListeningActive as before; the round-ended event that follows
\* still requests a start when isListeningActive is set.
C9_ParseFailureFrame ==
  [][/\ (/\ last'.ev = "onresult"
         /\ parseVoiceCommand(last'.transcript).type = "null") =>
          /\ last'.out = <<speak("Invalid format.")>>
          /\ status' = status
          /\ isListeningActive' = isListeningActive
          /\ game' = game
     /\ (/\ last.ev = "onresult"
         /\ parseVoiceCommand(last.transcript).type = "null"
         /\ isListeningActive
         /\ last'.ev = "onend") =>
          /\ Starts(last'.out) = <<ReqStart>>
          /\ recognition' = "starting"]_vars

C9_Witness ==
  /\ last.ev = "onresult"
  /\ last.transcript = T_banana
  /\ parseVoiceCommand(last.transcript).type = "null"
  /\ isListeningActive
  /\ status = "listening"

\* C10 as stated: after every utterance the last command is the raw
\* transcript, whatever it parses to.
C10_LastCommandIsTranscript ==
  last.ev = "onresult" => lastCommand = last.transcript

\* C10: after an utterance the last command is the raw transcript, except
\* that an utterance parsed as a new game leaves it empty, the new-game
\* callback clearing it.
C10_LastCommandUnlessNewGame ==
  last.ev = "onresult" =>
    lastCommand = IF parseVoiceCommand(last.transcript).type = "newgame"
                  THEN <<>>
                  ELSE last.transcript

C10_Witness ==
  /\ last.ev = "onresult"
  /\ last.transcript = T_new_game
  /\ lastCommand = <<>>

\* C11 as stated: the user's stop control (the toggle) used while the status
\* is ready and no round is under way leaves the status ready, does not set
\* isListeningActive and requests no start.
C11_StopWhenReadyIsNoOp ==
  [][(last'.ev = "toggle" /\ status = "ready" /\ recognition = "idle") =>
       /\ status' = "ready"
       /\ ~isListeningActive'
       /\ Starts(last'.out) = <<>>]_vars

\* C11: the controller has no stop of its own: a stop is requested only by a
\* toggle made while the status is listening.  A toggle made while the status
\* is ready and no round is under way leaves the status ready but is a start:
\* it sets isListeningActive, requests one start and never a stop.
C11_ToggleWhenReadyStarts ==
  [][/\ OfKind(last'.out, "stop") # <<>> =>
          (last'.ev = "toggle" /\ status = "listening")
     /\ (last'.ev = "toggle" /\ status = "ready" /\ recognition = "idle") =>
          /\ status' = "ready"
          /\ isListeningActive'
          /\ last'.out = <<ReqStart>>
          /\ recognition' = "starting"]_vars

C11_Witness ==
  /\ last.ev = "toggle"
  /\ status = "ready"
  /\ isListeningActive
  /\ recognition = "starting"
  /\ ~last.caught

RoundActive == recognition \in {"starting", "running", "finishing", "aborting"}

\* C12: a toggle that requests a start while a round is under way has the
\* exception of the recogniser caught: nothing is spoken, the status is as
\* before and the round goes on as it was, no second round begun; whichever
\* handler had a start refused, it speaks nothing and leaves the status.
C12_StartWhileActiveIsCaught ==
  [][/\ (last'.ev = "toggle" /\ Starts(last'.out) # <<>> /\ RoundActive) =>
          /\ last'.caught
          /\ Notices(last'.out) = <<>>
          /\ status' = status
          /\ recognition' = recognition
          /\ rounds' = rounds
     /\ last'.caught =>
          /\ Notices(last'.out) = <<>>
          /\ status' = status]_vars

C12_Witness ==
  /\ last.ev = "toggle"
  /\ last.caught
  /\ Starts(last.out) = <<ReqStart>>
  /\ recognition = "starting"
  /\ status = "ready"

SomeFiles == {<<"a">>, <<"e">>, <<"h">>}
SomeRanks == {<<"2">>, <<"4">>, <<"8">>}

SP == <<" ">>

\* what may stand between two parts of a compact form: nothing, whitespace,
\* or one of the connector words
Separators == {<<>>, SP, SP \o W_to \o SP, SP \o W_two \o SP, SP \o W_too \o SP}

\* the trailing promotion letter of a compact form, if any
Promotions == {<<>>, <<"q">>, SP \o <<"n">>}

Input(form, text, meant) == [form |-> form, text |-> text, meant |-> meant]

\* f1 r1 f2 r2 with an optional promotion letter
CompactInputs ==
  { Input("compact",
          f1 \o s1 \o r1 \o s2 \o f2 \o s3 \o r2 \o p,
          Cmd("move", f1 \o r1, f2 \o r2, "")) :
      f1 \in SomeFiles, r1 \in SomeRanks, f2 \in SomeFiles, r2 \in SomeRanks,
      s1 \in Separators, s2 \in Separators, s3 \in Separators, p \in Promotions }

\* the spoken rank words and the rank each denotes
RankWords ==
  { <<W_one, <<"1">> >>, <<W_two, <<"2">> >>, <<W_three, <<"3">> >>,
    <<W_four, <<"4">> >>, <<W_for, <<"4">> >>, <<W_five, <<"5">> >>,
    <<W_six, <<"6">> >>, <<W_seven, <<"7">> >>, <<W_eight, <<"8">> >> }

\* "move <file> <rank word> <file> <rank word>", every part a token of its own
MoveWordInputs ==
  { Input("moveWords",
          W_move \o SP \o f1 \o SP \o w1[1] \o SP \o f2 \o SP \o w2[1],
          Cmd("move", f1 \o w1[2], f2 \o w2[2], "")) :
      f1 \in SomeFiles, w1 \in RankWords, f2 \in SomeFiles, w2 \in RankWords }

\* texts and tokens written out
X_reset_undo == <<"r","e","s","e","t"," ","u","n","d","o">>
X_undo_reset == <<"u","n","d","o"," ","r","e","s","e","t">>
X_take_back_new_game == <<"t","a","k","e"," ","b","a","c","k"," ","n","e","w"," ","g","a","m","e">>
X_castle_undo == <<"c","a","s","t","l","e"," ","u","n","d","o">>
X_e2_to_e4_undo == <<"e","2"," ","t","o"," ","e","4"," ","u","n","d","o">>
X_castle_e2_e4 == <<"c","a","s","t","l","e"," ","e","2"," ","e","4">>
X_castle_long_e2_e4 == <<"c","a","s","t","l","e"," ","l","o","n","g"," ","e","2"," ","e","4">>
X_castling_queenside == <<"c","a","s","t","l","i","n","g"," ","q","u","e","e","n","s","i","d","e">>
X_a2_a4_castle == <<"a","2"," ","a","4"," ","c","a","s","t","l","e">>
X_move_etwo_efour_a2_a4 == <<"m","o","v","e"," ","e","t","w","o"," ","e","f","o","u","r"," ","a","2"," ","a","4">>
X_move_etwo_efour == <<"m","o","v","e"," ","e","t","w","o"," ","e","f","o","u","r">>
X_move_hfor_a8_now == <<"m","o","v","e"," ","h","f","o","r"," ","a","8"," ","n","o","w">>
X_banana == <<"b","a","n","a","n","a">>
X_move_e2 == <<"m","o","v","e"," ","e","2">>
X_empty == <<>>
X_MOVE_ETWO_EFOUR == <<"M","O","V","E"," ","E","T","W","O"," ","E","F","O","U","R">>
X_move_Etwo_efour == <<"m","o","v","e"," ","E","t","w","o"," ","e","f","o","u","r">>
X_Move_etwo_efour == <<"M","o","v","e"," ","e","t","w","o"," ","e","f","o","u","r">>
X_E2_TO_E4 == <<"E","2"," ","T","O"," ","E","4">>
X_New_Game == <<"N","e","w"," ","G","a","m","e">>
X_UNDO == <<"U","N","D","O">>
X_Castle_Long == <<"C","a","s","t","l","e"," ","L","o","n","g">>
X_move_aconstructor_e4 == <<"m","o","v","e"," ","a","c","o","n","s","t","r","u","c","t","o","r"," ","e","4">>
X_move_e4_hconstructor == <<"m","o","v","e"," ","e","4"," ","h","c","o","n","s","t","r","u","c","t","o","r">>
X_move_afive_e4 == <<"m","o","v","e"," ","a","f","i","v","e"," ","e","4">>
X_e4 == <<"e","4">>
X_E4 == <<"E","4">>
X_e_4 == <<"e"," ","4">>
X_etwo == <<"e","t","w","o">>
X_efor == <<"e","f","o","r">>
X_hfour == <<"h","f","o","u","r">>
X_Etwo == <<"E","t","w","o">>
X_e == <<"e">>
X_e9 == <<"e","9">>
X_i2 == <<"i","2">>
X_afive == <<"a","f","i","v","e">>
X_aconstructor == <<"a","c","o","n","s","t","r","u","c","t","o","r">>
X_two == <<"t","w","o">>
X__h8_ == <<" ","h","8"," ">>

\* texts that more than one strategy could take, with the command the first
\* strategy in order gives, and texts no strategy takes
OrderInputs ==
  { Input("order", X_reset_undo, Cmd("newgame", null, null, "")),
    Input("order", X_undo_reset, Cmd("newgame", null, null, "")),
    Input("order", X_take_back_new_game, Cmd("newgame", null, null, "")),
    Input("order", X_castle_undo, Cmd("undo", null, null, "")),
    Input("order", X_e2_to_e4_undo, Cmd("undo", null, null, "")),
    Input("order", X_castle_e2_e4, Cmd("castle", null, null, "kingside")),
    Input("order", X_castle_long_e2_e4, Cmd("castle", null, null, "queenside")),
    Input("order", X_castling_queenside, Cmd("castle", null, null, "queenside")),
    Input("order", X_a2_a4_castle, Cmd("castle", null, null, "kingside")),
    Input("order", X_move_etwo_efour_a2_a4, Cmd("move", <<"a","2">>, <<"a","4">>, "")),
    Input("order", X_move_etwo_efour, Cmd("move", <<"e","2">>, <<"e","4">>, "")),
    Input("order", X_move_hfor_a8_now, Cmd("move", <<"h","4">>, <<"a","8">>, "")),
    Input("order", X_banana, NoCommand),
    Input("order", X_move_e2, NoCommand),
    Input("order", X_empty, NoCommand) }

\* texts with upper-case letters, with the command of their lower-case form
CaseInputs ==
  { Input("case", X_MOVE_ETWO_EFOUR, Cmd("move", <<"e","2">>, <<"e","4">>, "")),
    Input("case", X_move_Etwo_efour, Cmd("move", <<"e","2">>, <<"e","4">>, "")),
    Input("case", X_Move_etwo_efour, Cmd("move", <<"e","2">>, <<"e","4">>, "")),
    Input("case", X_E2_TO_E4, Cmd("move", <<"e","2">>, <<"e","4">>, "")),
    Input("case", X_New_Game, Cmd("newgame", null, null, "")),
    Input("case", X_UNDO, Cmd("undo", null, null, "")),
    Input("case", X_Castle_Long, Cmd("castle", null, null, "queenside")) }

\* texts of the "move" token form whose tokens are looked up in rankMap
SquareInputs ==
  { Input("square", X_move_aconstructor_e4, NoCommand),
    Input("square", X_move_e4_hconstructor, NoCommand),
    Input("square", X_move_afive_e4, Cmd("move", <<"a","5">>, <<"e","4">>, "")) }

ParseInputs ==
  CompactInputs \cup MoveWordInputs \cup OrderInputs \cup CaseInputs \cup SquareInputs

\* tokens handed to normalizeSquare
NormalizeInputs ==
  { X_e4, X_E4, X_e_4, X_etwo, X_efor, X_hfour, X_Etwo, X_e, X_empty, X_e9, X_i2, X_afive, X_aconstructor, X_two, X__h8_ }

\* the input of one call, before the call
Pending(form, text, meant) ==
  Called("input", form, text, meant, NoCommand, null)

\* one input is drawn, for parseVoiceCommand or for normalizeSquare
ParserInit ==
  /\ phase = "init"
  /\ supported = TRUE
  /\ status = "idle"
  /\ isListeningActive = FALSE
  /\ recognition = "none"
  /\ lastCommand = <<>>
  /\ game = <<>>
  /\ welcomes = 0
  /\ last = Ran("none", <<>>, "", <<>>, FALSE, FALSE)
  /\ scenario = 0
  /\ rounds = 0
  /\ call \in { Pending(in.form, in.text, in.meant) : in \in ParseInputs }
              \cup { Pending("token", token, NoCommand) : token \in NormalizeInputs }

\* parseVoiceCommand applied to the text drawn
Parse ==
  /\ call.fn = "input"
  /\ call.form # "token"
  /\ call' = Called("parse", call.form, call.text, call.meant,
                    parseVoiceCommand(call.text), null)
  /\ UNCHANGED <<phase, supported, status, isListeningActive, recognition,
                 lastCommand, game, welcomes, last, scenario, rounds>>

\* normalizeSquare applied to the token drawn
Normalize ==
  /\ call.fn = "input"
  /\ call.form = "token"
  /\ call' = Called("normalize", "token", call.text, NoCommand, NoCommand,
                    normalizeSquare(call.text))
  /\ UNCHANGED <<phase, supported, status, isListeningActive, recognition,
                 lastCommand, game, welcomes, last, scenario, rounds>>

ParserNext ==
  \/ Parse
  \/ Normalize

ParserSpec == ParserInit /\ [][ParserNext]_vars

\* String.prototype.toUpperCase
toUpperChar(c) ==
  IF \E i \in 1..Len(LowerLetters) : LowerLetters[i] = c
  THEN UpperLetters[CHOOSE i \in 1..Len(LowerLetters) : LowerLetters[i] = c]
  ELSE c

toUpperCase(s) == [i \in 1..Len(s) |-> toUpperChar(s[i])]

\* a square in canonical form: a file letter a..h and a rank digit 1..8
IsCanonicalSquare(s) == Len(s) = 2 /\ s[1] \in FileLower /\ s[2] \in RankDigit

\* C14: every compact form f1 r1 f2 r2, with or without a trailing promotion
\* letter and with nothing, whitespace or a connector word (to, two, too)
\* between its parts, parses to the move from f1r1 to f2r2.
C14_CompactFormsParse ==
  (call.fn = "parse" /\ call.form = "compact") => call.command = call.meant

\* C15: every text "move <file> <rank word> <file> <rank word>", the file
\* letters and the rank words tokens of their own, parses to the move between
\* the two squares it denotes.
C15_MoveWordsParse ==
  (call.fn = "parse" /\ call.form = "moveWords") => call.command = call.meant

\* C16: the parser does not look at the case of letters: a text in upper case
\* and the same text in lower case parse alike, and every text parses as its
\* lower-case form does.
C16_CaseInsensitive ==
  call.fn = "parse" =>
    /\ parseVoiceCommand(toUpperCase(call.text))
         = parseVoiceCommand(toLowerCase(call.text))
    /\ call.command = parseVoiceCommand(toLowerCase(call.text))

HasKeyword(t, a) == Contains(toLowerCase(t), a)

HasNewGame(t) ==
  ContainsSpaced(toLowerCase(t), W_new, W_game) \/ HasKeyword(t, W_reset)

HasUndo(t) ==
  HasKeyword(t, W_undo) \/ ContainsSpaced(toLowerCase(t), W_take, W_back)

\* C17: the strategies are tried in the order compact form, new game, undo,
\* castle, natural form, "move" token form, and the first that matches gives
\* the result: a text with both "reset" and "undo" is a new game; a text with
\* an undo keyword and no new-game keyword is an undo; a text with "castle"
\* and none of those keywords that is not a compact form is a castle command,
\* queenside exactly when it also has "queen" or "long"; each text that
\* several strategies could take gives the command of the first of them, and
\* a text that none takes gives no command.
C17_FirstStrategyWins ==
  call.fn = "parse" =>
    /\ (HasKeyword(call.text, W_reset) /\ HasKeyword(call.text, W_undo)) =>
         call.command.type = "newgame"
    /\ (HasUndo(call.text) /\ ~HasNewGame(call.text)) =>
         call.command.type = "undo"
    /\ (/\ HasKeyword(call.text, W_castle)
        /\ ~HasNewGame(call.text) /\ ~HasUndo(call.text)
        /\ ~uciMatch(clean(trim(call.text)))) =>
         /\ call.command.type = "castle"
         /\ call.command.side = "queenside"
              <=> (HasKeyword(call.text, W_queen) \/ HasKeyword(call.text, W_long))
         /\ call.command.side \in {"queenside", "kingside"}
    /\ call.form = "order" => call.command = call.meant

C17_Witness ==
  /\ call.fn = "parse"
  /\ call.text = X_reset_undo
  /\ call.command.type = "newgame"

\* C18: every move the parser returns has a from and a to in canonical form,
\* and normalizeSquare returns a canonical square or nothing for every token.
C18_SquaresAreCanonical ==
  /\ (call.fn = "parse" /\ call.command.type = "move") =>
       /\ IsCanonicalSquare(call.command.from)
       /\ IsCanonicalSquare(call.command.to)
  /\ call.fn = "normalize" =>
       (call.square = null \/ IsCanonicalSquare(call.square))

\* C19: when the move callback throws, onresult does not catch it: the
\* utterance gets no spoken notice at all (no move confirmation, no "Invalid
\* format."), the game, the status and isListeningActive stay as they were,
\* and the round-ended event that follows requests a new start when
\* isListeningActive is set.
C19_ThrowingMoveCallback ==
  /\ [][(last'.ev = "onresult" /\ last'.threw) =>
          /\ ~last'.caught
          /\ OfKind(last'.out, "onMove") # <<>>
          /\ Notices(last'.out) = <<>>
          /\ game' = game
          /\ status' = status
          /\ isListeningActive' = isListeningActive]_vars
  /\ [][(last.ev = "onresult" /\ last.threw /\ last'.ev = "onend"
           /\ isListeningActive) =>
          /\ Starts(last'.out) = <<ReqStart>>
          /\ recognition' = "starting"]_vars

C19_Witness ==
  /\ last.ev = "onresult"
  /\ last.threw
  /\ isListeningActive
  /\ status = "listening"
  /\ Notices(last.out) = <<>>

\* C20: isListeningActive changes only in handleToggle, which clears it when
\* the status is listening and sets it at every other status but unsupported;
\* onstart, onend, onresult, onerror, the teardown and the game's buttons
\* leave it as the last toggle set it.
C20_IntentOnlyByToggle ==
  /\ [][last'.ev # "toggle" => isListeningActive' = isListeningActive]_vars
  /\ [][last'.ev = "toggle" =>
          isListeningActive' =
            (IF status = "unsupported" THEN isListeningActive
             ELSE status # "listening")]_vars

C20_Witness ==
  /\ last.ev = "onerror"
  /\ last.code # "no-speech"
  /\ status = "error"
  /\ isListeningActive

\* the stretch after a no-speech error with isListeningActive set: the status
\* is ready and the recogniser is ending its round or starting the next one
AwaitingRestart ==
  /\ phase = "mounted"
  /\ status = "ready"
  /\ isListeningActive
  /\ recognition \in {"finishing", "starting"}

\* C21: a no-speech error while isListeningActive is set leaves the status at
\* ready with isListeningActive still set; from there the round-ended event
\* requests a new start and keeps the status, and the onstart that follows
\* sets the status to listening, no toggle being needed; until that onstart
\* (or another error, or the teardown) the status stays ready with
\* isListeningActive set, and a toggle in that stretch takes the start branch:
\* it requests a start, never a stop, and keeps isListeningActive set.
C21_NoSpeechReadyIsTransient ==
  /\ [][(last'.ev = "onerror" /\ last'.code = "no-speech"
           /\ isListeningActive /\ phase = "mounted") =>
          /\ Notices(last'.out) = <<>>
          /\ AwaitingRestart'
          /\ recognition' = "finishing"]_vars
  /\ [][(AwaitingRestart /\ last'.ev = "onend") =>
          /\ Starts(last'.out) = <<ReqStart>>
          /\ recognition' = "starting"
          /\ AwaitingRestart']_vars
  /\ [][(AwaitingRestart /\ last'.ev = "onstart") =>
          /\ status' = "listening"
          /\ isListeningActive'
          /\ recognition' = "running"]_vars
  /\ [][(AwaitingRestart /\ last'.ev = "toggle") =>
          /\ Starts(last'.out) = <<ReqStart>>
          /\ OfKind(last'.out, "stop") = <<>>
          /\ AwaitingRestart']_vars
  /\ [][AwaitingRestart =>
          \/ AwaitingRestart'
          \/ last'.ev = "onstart" /\ status' = "listening"
          \/ last'.ev = "onerror" /\ last'.code # "no-speech"
          \/ last'.ev = "teardown"]_vars

C21_Witness ==
  /\ last.ev = "onerror"
  /\ last.code = "no-speech"
  /\ AwaitingRestart
  /\ recognition = "finishing"

====
